---- MODULE Spec2Model ----
(***************************************************************************)
(* Probability evaluation for the geometric, binomial, Poisson and uniform *)
(* distributions, in its two variants:                                     *)
(*   Variant A  "Maths_assignment/Assignment 1_Group C.py"   (validating)  *)
(*   Variant B  "modified_for_negative_removal.py"           (filtering)   *)
(*                                                                         *)
(* Numbers are exact rationals <<num, den>> with den > 0.  The parameter   *)
(* values enumerated below are dyadic, so the binary floating-point        *)
(* arithmetic of the program is exact on them.  A distribution name is the *)
(* sequence of its character codes, so that lower() and strip() are        *)
(* computed and not assumed.  A Poisson probability c * exp(-mu) is kept   *)
(* as its rational coefficient c together with the exponent mu (efac).     *)
(***************************************************************************)
EXTENDS Integers, Sequences, FiniteSets

VARIABLES
    variant,     \* "A" or "B": which script runs
    pc,          \* "start" | "done"
    entry,       \* entry point that ran: "none" | "plot_distribution" | "main"
    typed,       \* what the user typed: the name, and start and end of the range
    name,        \* distribution name handed to plot_distribution
    parameters,  \* parameter dict handed to plot_distribution
    vals,        \* value sequence handed to plot_distribution
    res,         \* outcome of get_probability_distribution
    output,      \* everything printed or drawn, in order, each with its printer
    uncaught     \* exception class that escapes the entry point, or "none"

vars == <<variant, pc, entry, typed, name, parameters, vals, res, output, uncaught>>

-----------------------------------------------------------------------------
(* Bounds of the model                                                     *)

MaxLen == 3      \* longest value sequence handed directly to plot_distribution
MaxRange == 5    \* the user types start and end in -MaxRange .. MaxRange
MaxN == 5        \* largest number of trials n

-----------------------------------------------------------------------------
(* Exact rational arithmetic                                               *)

RECURSIVE GCD(_, _)
GCD(a, b) == IF b = 0 THEN a ELSE GCD(b, a % b)

\* the rational n/d (d > 0) in lowest terms
Rat(n, d) ==
    LET g == GCD(IF n < 0 THEN -n ELSE n, d) IN <<n \div g, d \div g>>
Zero == Rat(0, 1)
One == Rat(1, 1)
FromInt(i) == Rat(i, 1)
NaN == <<0, 0>>          \* not-a-number, as returned by the statistics library

\* comparisons and arithmetic on rationals in lowest terms
RLt(a, b) == a[1] * b[2] < b[1] * a[2]
RLe(a, b) == a[1] * b[2] <= b[1] * a[2]
REq(a, b) == a = b
RAdd(a, b) == Rat(a[1] * b[2] + b[1] * a[2], a[2] * b[2])
RSub(a, b) == Rat(a[1] * b[2] - b[1] * a[2], a[2] * b[2])
RMul(a, b) == Rat(a[1] * b[1], a[2] * b[2])
RInv(a) == IF a[1] < 0 THEN Rat(-a[2], -a[1]) ELSE Rat(a[2], a[1])
IsIntegral(a) == a[1] % a[2] = 0
IntOf(a) == a[1] \div a[2]

RECURSIVE IPow(_, _)
IPow(b, k) == IF k <= 0 THEN 1 ELSE b * IPow(b, k - 1)

\* a ** k for an integer k >= 0; 0 ** 0 is 1 as in Python
RPow(a, k) == Rat(IPow(a[1], k), IPow(a[2], k))

RECURSIVE factorial(_)
factorial(k) == IF k <= 0 THEN 1 ELSE k * factorial(k - 1)

\* math.comb(n, x) for integers 0 <= x <= n
comb(n, x) == factorial(n) \div (factorial(x) * factorial(n - x))

RECURSIVE RSum(_)
RSum(s) == IF s = <<>> THEN Zero ELSE RAdd(s[1], RSum(Tail(s)))

-----------------------------------------------------------------------------
(* Sequences                                                               *)

any_negative(s) == \E i \in DOMAIN s : s[i] < 0
arange(lo, hi) == [i \in 1 .. (IF hi > lo THEN hi - lo ELSE 0) |-> lo + i - 1]
RECURSIVE SelectSeqOf(_, _)
SelectSeqOf(s, neg) ==
    IF s = <<>> THEN <<>>
    ELSE IF (s[1] < 0) = neg THEN <<s[1]>> \o SelectSeqOf(Tail(s), neg)
         ELSE SelectSeqOf(Tail(s), neg)
SeqsUpTo(S, n) == UNION {[1 .. k -> S] : k \in 0 .. n}
abs(i) == IF i < 0 THEN -i ELSE i

-----------------------------------------------------------------------------
(* Distribution names as character codes                                   *)

GEOMETRIC == <<103, 101, 111, 109, 101, 116, 114, 105, 99>>   \* 'geometric'
BINOMIAL == <<98, 105, 110, 111, 109, 105, 97, 108>>          \* 'binomial'
POISSON == <<112, 111, 105, 115, 115, 111, 110>>              \* 'poisson'
UNIFORM == <<117, 110, 105, 102, 111, 114, 109>>              \* 'uniform'

Names ==
    { GEOMETRIC, BINOMIAL, POISSON, UNIFORM,
      <<66, 105, 110, 111, 109, 105, 97, 108>>,               \* 'Binomial'
      <<80, 79, 73, 83, 83, 79, 78>>,                         \* 'POISSON'
      <<32, 85, 110, 105, 102, 111, 114, 109, 32>>,           \* ' Uniform '
      <<103, 97, 117, 115, 115, 105, 97, 110>> }              \* 'gaussian'

\* str.lower(): 'A'..'Z' become 'a'..'z', everything else is kept
lower(s) == [i \in DOMAIN s |-> IF s[i] >= 65 /\ s[i] <= 90 THEN s[i] + 32 ELSE s[i]]

IsSpace(c) == c \in {9, 10, 11, 12, 13, 32}
RECURSIVE lstrip(_)
lstrip(s) == IF s # <<>> /\ IsSpace(s[1]) THEN lstrip(Tail(s)) ELSE s
RECURSIVE rstrip(_)
rstrip(s) ==
    IF s # <<>> /\ IsSpace(s[Len(s)]) THEN rstrip(SubSeq(s, 1, Len(s) - 1)) ELSE s
\* str.strip()
strip(s) == rstrip(lstrip(s))

-----------------------------------------------------------------------------
(* Parameter dicts: the keys present and the value of each                 *)

Keys == {"n", "p", "mu", "low", "high"}
NoVals == [n |-> Zero, p |-> Zero, mu |-> Zero, low |-> Zero, high |-> Zero]
Dict(ks, v) == [keys |-> ks, v |-> v]
EmptyDict == Dict({}, NoVals)
Has(d, k) == k \in d.keys

PVals == {Rat(-1, 2), Zero, Rat(1, 2), One, Rat(3, 2)}
NInts == {FromInt(i) : i \in {-1, 0, 1, 2, MaxN}}
NVals == NInts \cup {Rat(5, 2)}
MuVals == {FromInt(-1), Zero, FromInt(2)}
BoundVals == {FromInt(-1), Zero, One, FromInt(2)}

GeometricDicts == {Dict({"p"}, [NoVals EXCEPT !.p = x]) : x \in PVals}
BinomialDictsOver(ns) ==
    {Dict({"n", "p"}, [NoVals EXCEPT !.n = k, !.p = x]) : k \in ns, x \in PVals}
PoissonDicts == {Dict({"mu"}, [NoVals EXCEPT !.mu = m]) : m \in MuVals}
UniformDicts ==
    {Dict({"low", "high"}, [NoVals EXCEPT !.low = l, !.high = h]) :
        l \in BoundVals, h \in BoundVals}
Dicts ==
    {EmptyDict} \cup GeometricDicts \cup BinomialDictsOver(NVals)
        \cup PoissonDicts \cup UniformDicts

XVals == {-3, -1, 0, 1}

-----------------------------------------------------------------------------
(* Outcomes of a call, and printed lines                                   *)

MsgNonNeg == "All values in 'vals' must be non-negative."
MsgGeomP == "The probability of success 'p' must be in the range (0, 1]."
MsgBinomN == "The number of trials 'n' must be non-negative."
MsgBinomP == "The probability of success 'p' must be in the range [0, 1]."
MsgMu == "The mean 'mu' must be non-negative."
MsgLowHigh == "The lower bound 'low' must be less than the upper bound 'high'."
MsgUnsupported == "Unsupported distribution name."
MsgAllNegative == "All input values are negative. Cannot compute probabilities."
MsgBothNegative == "Both start and end of the range of x values cannot be negative."
MsgInvalidName == "Invalid distribution name."

\* a line sent to standard output (or the chart drawn): the function that
\* produced it, which line it is, its message text, the values it shows
Line(src, what, text, shown) ==
    [src |-> src, what |-> what, text |-> text, shown |-> shown]

\* a returned result
Returned(vs, ps, mu, out) ==
    [status |-> "ok", exc |-> "none", err |-> "none", msg |-> "",
     vals |-> vs, probabilities |-> ps, efac |-> mu,
     removed |-> <<>>, kept |-> <<>>, out |-> out]
\* a raised exception: its class, its kind in the error taxonomy, its message
Raised(exc, err, msg, out) ==
    [status |-> "raised", exc |-> exc, err |-> err, msg |-> msg,
     vals |-> <<>>, probabilities |-> <<>>, efac |-> Zero,
     removed |-> <<>>, kept |-> <<>>, out |-> out]
NoCall ==
    [status |-> "none", exc |-> "none", err |-> "none", msg |-> "",
     vals |-> <<>>, probabilities |-> <<>>, efac |-> Zero,
     removed |-> <<>>, kept |-> <<>>, out |-> <<>>]
KeyError(out) == Raised("KeyError", "none", "", out)

-----------------------------------------------------------------------------
(* The probability functions of the statistics library used by Variant A   *)

geom_pmf(p, x) == IF x >= 1 THEN RMul(RPow(RSub(One, p), x - 1), p) ELSE Zero
binom_pmf(n, p, x) ==
    IF ~IsIntegral(n) THEN NaN
    ELSE IF 0 <= x /\ x <= IntOf(n)
         THEN RMul(FromInt(comb(IntOf(n), x)),
                   RMul(RPow(p, x), RPow(RSub(One, p), IntOf(n) - x)))
         ELSE Zero
\* coefficient of exp(-mu)
poisson_pmf(mu, x) ==
    IF x >= 0 THEN RMul(RPow(mu, x), Rat(1, factorial(x))) ELSE Zero
uniform_pdf(low, high, x) ==
    IF RLe(low, FromInt(x)) /\ RLe(FromInt(x), high) THEN RInv(RSub(high, low))
    ELSE Zero

-----------------------------------------------------------------------------
(* Variant A: distribution functions and dispatcher                        *)

geometricA(p, vs) ==
    IF RLe(p, Zero) \/ RLt(One, p)
    THEN Raised("ValueError", "InvalidParameter", MsgGeomP, <<>>)
    ELSE IF any_negative(vs)
    THEN Raised("ValueError", "InvalidInput", MsgNonNeg, <<>>)
    ELSE Returned(<<>>, [i \in DOMAIN vs |-> geom_pmf(p, vs[i])], Zero, <<>>)

binomialA(n, p, vs) ==
    IF RLt(n, Zero)
    THEN Raised("ValueError", "InvalidParameter", MsgBinomN, <<>>)
    ELSE IF RLt(p, Zero) \/ RLt(One, p)
    THEN Raised("ValueError", "InvalidParameter", MsgBinomP, <<>>)
    ELSE IF any_negative(vs)
    THEN Raised("ValueError", "InvalidInput", MsgNonNeg, <<>>)
    ELSE Returned(<<>>, [i \in DOMAIN vs |-> binom_pmf(n, p, vs[i])], Zero, <<>>)

poisson_distA(mu, vs) ==
    IF RLt(mu, Zero)
    THEN Raised("ValueError", "InvalidParameter", MsgMu, <<>>)
    ELSE IF any_negative(vs)
    THEN Raised("ValueError", "InvalidInput", MsgNonNeg, <<>>)
    ELSE Returned(<<>>, [i \in DOMAIN vs |-> poisson_pmf(mu, vs[i])], mu, <<>>)

uniform_distA(low, high, vs) ==
    IF RLe(high, low)
    THEN Raised("ValueError", "InvalidParameter", MsgLowHigh, <<>>)
    ELSE Returned(<<>>, [i \in DOMAIN vs |-> uniform_pdf(low, high, vs[i])], Zero, <<>>)

\* the dispatch on the lower-cased name
dispatchA(nm, params, vs) ==
         LET lname == lower(nm) IN
         IF lname = GEOMETRIC
         THEN IF Has(params, "p") THEN geometricA(params.v.p, vs) ELSE KeyError(<<>>)
         ELSE IF lname = BINOMIAL
         THEN IF Has(params, "n") /\ Has(params, "p")
              THEN binomialA(params.v.n, params.v.p, vs)
              ELSE KeyError(<<>>)
         ELSE IF lname = POISSON
         THEN IF Has(params, "mu") THEN poisson_distA(params.v.mu, vs) ELSE KeyError(<<>>)
         ELSE IF lname = UNIFORM
         THEN IF Has(params, "low") /\ Has(params, "high")
              THEN uniform_distA(params.v.low, params.v.high, vs)
              ELSE KeyError(<<>>)
         ELSE Raised("ValueError", "UnsupportedDistribution", MsgUnsupported, <<>>)

\* variation: the negative-value check is left to the distribution functions
get_probability_distributionA_CheckAfterDispatch(nm, params, vs) ==
    dispatchA(nm, params, vs)

get_probability_distributionA(nm, params, vs) ==
    IF any_negative(vs)
    THEN Raised("ValueError", "InvalidInput", MsgNonNeg, <<>>)
    ELSE dispatchA(nm, params, vs)

-----------------------------------------------------------------------------
(* Variant B: distribution functions, value filter and dispatcher          *)

geometricB(p, vs, out) ==
    Returned(vs,
             [i \in DOMAIN vs |->
                 IF vs[i] > 0 THEN RMul(RPow(RSub(One, p), vs[i] - 1), p) ELSE Zero],
             Zero, out)

\* variation: the exponents of p and 1 - p are exchanged
binomial_termB_SwappedExponents(n, p, x) ==
    RMul(FromInt(comb(n, x)), RMul(RPow(p, n - x), RPow(RSub(One, p), x)))

\* variation: the binomial coefficient is missing
binomial_termB_NoComb(n, p, x) ==
    RMul(RPow(p, x), RPow(RSub(One, p), n - x))

\* comb(n, x) * (p**x) * ((1 - p)**(n - x))
binomial_termB(n, p, x) ==
    RMul(FromInt(comb(n, x)), RMul(RPow(p, x), RPow(RSub(One, p), n - x)))

binomialB(n, p, vs, out) ==
    LET InSupport(x) == 0 <= x /\ RLe(FromInt(x), n)
        NotAnInt(x) == InSupport(x) /\ ~IsIntegral(n)
    IN  IF \E i \in DOMAIN vs : NotAnInt(vs[i])   \* comb raises on a non-integer n
        THEN Raised("TypeError", "none", "", out)
        ELSE Returned(vs,
                      [i \in DOMAIN vs |->
                          IF InSupport(vs[i])
                          THEN binomial_termB(IntOf(n), p, vs[i])
                          ELSE Zero],
                      Zero, out)

poisson_distB(mu, vs, out) ==
    Returned(vs,
             [i \in DOMAIN vs |->
                 IF vs[i] >= 0
                 THEN RMul(RPow(mu, vs[i]), Rat(1, factorial(vs[i])))
                 ELSE Zero],
             mu, out)

\* variation: the support is taken half-open, low <= x < high
uniform_distB_HalfOpen(low, high, vs, out) ==
    LET InSupport(x) == RLe(low, FromInt(x)) /\ RLt(FromInt(x), high)
        DivByZero(x) == InSupport(x) /\ REq(high, low)
    IN  IF \E i \in DOMAIN vs : DivByZero(vs[i])
        THEN Raised("ZeroDivisionError", "none", "", out)
        ELSE Returned(vs,
                      [i \in DOMAIN vs |->
                          IF InSupport(vs[i]) THEN RInv(RSub(high, low)) ELSE Zero],
                      Zero, out)

uniform_distB(low, high, vs, out) ==
    LET InSupport(x) == RLe(low, FromInt(x)) /\ RLe(FromInt(x), high)
        DivByZero(x) == InSupport(x) /\ REq(high, low)
    IN  IF \E i \in DOMAIN vs : DivByZero(vs[i])
        THEN Raised("ZeroDivisionError", "none", "", out)
        ELSE Returned(vs,
                      [i \in DOMAIN vs |->
                          IF InSupport(vs[i]) THEN RInv(RSub(high, low)) ELSE Zero],
                      Zero, out)

\* what filter_values prints: the removed values if any, then the kept ones
filter_shown(removed_values, remaining_values) ==
    (IF removed_values # <<>>
     THEN <<Line("filter_values", "removed", "Removed negative values", removed_values)>>
     ELSE <<>>)
    \o <<Line("filter_values", "kept", "Positive values after filtering", remaining_values)>>

\* variation: the removed values are shown even when there are none
filter_values_AlwaysShowsRemoved(vs) ==
    LET removed_values == SelectSeqOf(vs, TRUE)
        remaining_values == SelectSeqOf(vs, FALSE)
    IN  [removed |-> removed_values, kept |-> remaining_values,
         out |-> <<Line("filter_values", "removed", "Removed negative values", removed_values),
                   Line("filter_values", "kept", "Positive values after filtering", remaining_values)>>,
         raises |-> (remaining_values = <<>>)]

\* variation: "positive" taken strictly, v > 0 in place of v >= 0
filter_values_StrictlyPositive(vs) ==
    LET removed_values == SelectSeqOf(vs, TRUE)
        remaining_values == SelectSeq(SelectSeqOf(vs, FALSE), LAMBDA v : v > 0)
    IN  [removed |-> removed_values, kept |-> remaining_values,
         out |-> filter_shown(removed_values, remaining_values),
         raises |-> (remaining_values = <<>>)]

\* variation: the emptiness check is missing
filter_values_NoEmptyCheck(vs) ==
    LET removed_values == SelectSeqOf(vs, TRUE)
        remaining_values == SelectSeqOf(vs, FALSE)
    IN  [removed |-> removed_values, kept |-> remaining_values,
         out |-> filter_shown(removed_values, remaining_values),
         raises |-> FALSE]

\* filter_values: the two partitions, what it prints, and whether it raises
filter_values(vs) ==
    LET removed_values == SelectSeqOf(vs, TRUE)
        remaining_values == SelectSeqOf(vs, FALSE)
    IN  [removed |-> removed_values, kept |-> remaining_values,
         out |-> filter_shown(removed_values, remaining_values),
         raises |-> (remaining_values = <<>>)]

get_probability_distributionB(nm, params, vs) ==
    LET f == filter_values(vs)
        filtered_vals == f.kept
        r == IF f.raises
             THEN Raised("ValueError", "InvalidInput", MsgAllNegative, f.out)
             ELSE IF nm = GEOMETRIC
             THEN IF Has(params, "p") THEN geometricB(params.v.p, filtered_vals, f.out)
                  ELSE KeyError(f.out)
             ELSE IF nm = BINOMIAL
             THEN IF Has(params, "n") /\ Has(params, "p")
                  THEN binomialB(params.v.n, params.v.p, filtered_vals, f.out)
                  ELSE KeyError(f.out)
             ELSE IF nm = POISSON
             THEN IF Has(params, "mu")
                  THEN poisson_distB(params.v.mu, filtered_vals, f.out)
                  ELSE KeyError(f.out)
             ELSE IF nm = UNIFORM
             THEN IF Has(params, "low") /\ Has(params, "high")
                  THEN uniform_distB(params.v.low, params.v.high, filtered_vals, f.out)
                  ELSE KeyError(f.out)
             ELSE Raised("ValueError", "UnsupportedDistribution", MsgUnsupported, f.out)
    IN  [r EXCEPT !.removed = f.removed, !.kept = f.kept]

-----------------------------------------------------------------------------
(* Presentation layer: plot_distribution                                   *)

\* what plot_distribution prints and draws for the outcome r over the values vs
Shows(r, vs) ==
    IF r.status = "ok"
    THEN <<Line("plot_distribution", "header", "", <<>>)>>
         \o [i \in 1 .. (IF Len(vs) < Len(r.probabilities) THEN Len(vs)
                         ELSE Len(r.probabilities)) |->
                Line("plot_distribution", "value", "", <<vs[i]>>)]
         \o <<Line("plot_distribution", "chart", "", vs)>>
    ELSE IF r.exc = "ValueError"
    THEN <<Line("plot_distribution", "error", r.msg, <<>>)>>
    ELSE <<>>

\* the exception that leaves plot_distribution: only ValueError is handled
Escapes(r) == IF r.status = "raised" /\ r.exc # "ValueError" THEN r.exc ELSE "none"

plot_distributionA(nm, params, vs) ==
    LET r == get_probability_distributionA(nm, params, vs)
    IN  [res |-> r, output |-> r.out \o Shows(r, vs), uncaught |-> Escapes(r)]

plot_distributionB(nm, params, vs) ==
    LET r == get_probability_distributionB(nm, params, vs)
    IN  [res |-> r, output |-> r.out \o Shows(r, r.vals), uncaught |-> Escapes(r)]

-----------------------------------------------------------------------------
(* Input layer: get_user_input                                             *)

NoTyped == [name |-> <<>>, start |-> 0, end |-> 0]

\* the parameters get_user_input asks for, by (stripped, lower-cased) name
TypedDicts(nm) ==
    IF nm = GEOMETRIC THEN GeometricDicts
    ELSE IF nm = BINOMIAL THEN BinomialDictsOver({FromInt(i) : i \in -1 .. MaxN})
    ELSE IF nm = POISSON THEN PoissonDicts
    ELSE IF nm = UNIFORM THEN UniformDicts
    ELSE {EmptyDict}

IsKnown(nm) == nm \in {GEOMETRIC, BINOMIAL, POISSON, UNIFORM}

\* variation: a negative start or end is used as typed
get_user_inputA_NoAbs(raw, start, end, params) ==
    LET nm == lower(strip(raw)) IN
    IF start < 0 /\ end < 0
    THEN [ok |-> FALSE, msg |-> MsgBothNegative, name |-> nm,
          parameters |-> EmptyDict, vals |-> <<>>, out |-> <<>>]
    ELSE LET vs == arange(start, end + 1)
             shown == <<Line("get_user_input", "range", "Range of x values", vs)>>
         IN  IF IsKnown(nm)
             THEN [ok |-> TRUE, msg |-> "", name |-> nm,
                   parameters |-> params, vals |-> vs, out |-> shown]
             ELSE [ok |-> FALSE, msg |-> MsgInvalidName, name |-> nm,
                   parameters |-> EmptyDict, vals |-> vs, out |-> shown]

get_user_inputA(raw, start, end, params) ==
    LET nm == lower(strip(raw)) IN
    IF start < 0 /\ end < 0
    THEN [ok |-> FALSE, msg |-> MsgBothNegative, name |-> nm,
          parameters |-> EmptyDict, vals |-> <<>>, out |-> <<>>]
    ELSE LET s == IF start < 0 THEN abs(start) ELSE start
             e == IF end < 0 THEN abs(end) ELSE end
             vs == arange(s, e + 1)
             shown == <<Line("get_user_input", "range", "Range of x values", vs)>>
         IN  IF IsKnown(nm)
             THEN [ok |-> TRUE, msg |-> "", name |-> nm,
                   parameters |-> params, vals |-> vs, out |-> shown]
             ELSE [ok |-> FALSE, msg |-> MsgInvalidName, name |-> nm,
                   parameters |-> EmptyDict, vals |-> vs, out |-> shown]

get_user_inputB(raw, start, end, params) ==
    LET nm == lower(strip(raw))
        vs == arange(start, end + 1)
    IN  IF IsKnown(nm)
        THEN [ok |-> TRUE, msg |-> "", name |-> nm,
              parameters |-> params, vals |-> vs, out |-> <<>>]
        ELSE [ok |-> FALSE, msg |-> MsgInvalidName, name |-> nm,
              parameters |-> EmptyDict, vals |-> vs, out |-> <<>>]

-----------------------------------------------------------------------------
(* The state machine: one run of an entry point                            *)

Init ==
    /\ variant \in {"A", "B"}
    /\ pc = "start"
    /\ entry = "none"
    /\ typed = NoTyped
    /\ name = <<>>
    /\ parameters = EmptyDict
    /\ vals = <<>>
    /\ res = NoCall
    /\ output = <<>>
    /\ uncaught = "none"

\* plot_distribution(name, parameters, vals) called directly
Plot(nm, params, vs, plotted) ==
    /\ pc' = "done"
    /\ entry' = "plot_distribution"
    /\ name' = nm
    /\ parameters' = params
    /\ vals' = vs
    /\ res' = plotted.res
    /\ output' = plotted.output
    /\ uncaught' = plotted.uncaught
    /\ UNCHANGED <<variant, typed>>

PlotA ==
    /\ pc = "start"
    /\ variant = "A"
    /\ \E nm \in Names, params \in Dicts, vs \in SeqsUpTo(XVals, MaxLen) :
        Plot(nm, params, vs, plot_distributionA(nm, params, vs))

PlotB ==
    /\ pc = "start"
    /\ variant = "B"
    /\ \E nm \in Names, params \in Dicts, vs \in SeqsUpTo(XVals, MaxLen) :
        Plot(nm, params, vs, plot_distributionB(nm, params, vs))

\* the script run as a program: get_user_input, then plot_distribution
Main(raw, start, end, in, plotted) ==
    /\ pc' = "done"
    /\ entry' = "main"
    /\ typed' = [name |-> raw, start |-> start, end |-> end]
    /\ name' = in.name
    /\ parameters' = in.parameters
    /\ vals' = in.vals
    /\ IF in.ok
       THEN /\ res' = plotted.res
            /\ output' = in.out \o plotted.output
            /\ uncaught' = plotted.uncaught
       ELSE /\ res' = NoCall
            /\ output' = in.out \o <<Line("main", "error", in.msg, <<>>)>>
            /\ uncaught' = "none"
    /\ UNCHANGED variant

MainA ==
    /\ pc = "start"
    /\ variant = "A"
    /\ \E raw \in Names, start \in -MaxRange .. MaxRange, end \in -MaxRange .. MaxRange :
        \E params \in TypedDicts(lower(strip(raw))) :
            LET in == get_user_inputA(raw, start, end, params)
            IN  Main(raw, start, end, in,
                     plot_distributionA(in.name, in.parameters, in.vals))

MainB ==
    /\ pc = "start"
    /\ variant = "B"
    /\ \E raw \in Names, start \in -MaxRange .. MaxRange, end \in -MaxRange .. MaxRange :
        \E params \in TypedDicts(lower(strip(raw))) :
            LET in == get_user_inputB(raw, start, end, params)
            IN  Main(raw, start, end, in,
                     plot_distributionB(in.name, in.parameters, in.vals))

Next == PlotA \/ PlotB \/ MainA \/ MainB

Spec == Init /\ [][Next]_vars

-----------------------------------------------------------------------------
(* Vocabulary of the properties                                            *)

Done == pc = "done"
\* get_probability_distribution was called in this run
CoreCalled == Done /\ res.status # "none"

\* the positions of vs holding a value that satisfies Keep, and the k-th of them
Positions(vs, Keep(_)) == {i \in DOMAIN vs : Keep(vs[i])}
Kth(P, k) == CHOOSE i \in P : Cardinality({j \in P : j < i}) = k - 1
\* s is exactly the subsequence of vs of the values satisfying Keep, in order
IsSubsequenceOf(s, vs, Keep(_)) ==
    /\ Len(s) = Cardinality(Positions(vs, Keep))
    /\ \A k \in DOMAIN s : s[k] = vs[Kth(Positions(vs, Keep), k)]
IsNegative(v) == v < 0
IsNonNegative(v) == v >= 0

LinesOf(src, what) == {i \in DOMAIN output : output[i].src = src /\ output[i].what = what}

-----------------------------------------------------------------------------
\* C1: in Variant A, whenever some input value is negative, the evaluator
\* fails with the invalid-input error and returns no probabilities, whatever
\* the distribution name (recognized or not) and whatever the parameters
\* (valid, invalid or missing): the check comes before dispatch and before
\* parameter validation.  Nothing is shown but the error.
C1_RejectNegativeUpFront ==
    (Done /\ variant = "A" /\ any_negative(vals)) =>
        /\ res.status = "raised"
        /\ res.exc = "ValueError"
        /\ res.err = "InvalidInput"
        /\ res.msg = MsgNonNeg
        /\ res.probabilities = <<>>
        /\ LinesOf("plot_distribution", "value") = {}
        /\ LinesOf("plot_distribution", "chart") = {}
        /\ uncaught = "none"

\* the reject-mode example: binomial, n = 5, p = 0.5, vals = [-1, 0, 1]
C1_Witness ==
    /\ Done /\ variant = "A"
    /\ lower(name) = BINOMIAL
    /\ parameters = Dict({"n", "p"}, [NoVals EXCEPT !.n = FromInt(5), !.p = Rat(1, 2)])
    /\ vals = <<-1, 0, 1>>
    /\ res.err = "InvalidInput"

-----------------------------------------------------------------------------
-----------------------------------------------------------------------------
\* C3: in Variant B, the evaluator never returns an empty result: it fails
\* with the all-negative invalid-input error exactly when vals holds no
\* non-negative value (all negative, or empty), and a returned result holds
\* at least one value.
C3_NoEmptySuccess ==
    (CoreCalled /\ variant = "B") =>
        /\ (res.status = "raised" /\ res.exc = "ValueError"
                /\ res.err = "InvalidInput" /\ res.msg = MsgAllNegative)
              <=> (\A i \in DOMAIN vals : vals[i] < 0)
        /\ res.status = "ok" =>
              /\ \E i \in DOMAIN vals : vals[i] >= 0
              /\ res.vals # <<>>
              /\ res.probabilities # <<>>

\* the all-negative example: vals = [-3, -1]
C3_Witness ==
    /\ CoreCalled /\ variant = "B"
    /\ vals = <<-3, -1>>
    /\ res.status = "raised"
    /\ res.msg = MsgAllNegative

-----------------------------------------------------------------------------
\* the four recognized kinds
Kinds == {GEOMETRIC, BINOMIAL, POISSON, UNIFORM}
\* the run got as far as the dispatch on the name
DispatchReached ==
    /\ CoreCalled
    /\ IF variant = "A" THEN ~any_negative(vals)
       ELSE \E i \in DOMAIN vals : vals[i] >= 0
\* the parameters the kind k needs are all present
HasParametersOf(k) ==
    IF k = GEOMETRIC THEN Has(parameters, "p")
    ELSE IF k = BINOMIAL THEN Has(parameters, "n") /\ Has(parameters, "p")
    ELSE IF k = POISSON THEN Has(parameters, "mu")
    ELSE Has(parameters, "low") /\ Has(parameters, "high")

\* C4: in both variants the dispatcher selects the evaluator by the name
\* without regard to case ('Binomial', 'POISSON', 'binomial' select what
\* their lower-case form selects) and fails with the unsupported-distribution
\* error for every name that is not one of the four kinds.
C4_CaseInsensitiveDispatch ==
    DispatchReached =>
        IF lower(name) \in Kinds
        THEN /\ res.err # "UnsupportedDistribution"
             /\ res = (IF variant = "A"
                       THEN get_probability_distributionA(lower(name), parameters, vals)
                       ELSE get_probability_distributionB(lower(name), parameters, vals))
        ELSE /\ res.status = "raised"
             /\ res.err = "UnsupportedDistribution"

\* C4 restricted to Variant A, where it holds
C4_CaseInsensitiveDispatchA ==
    variant = "A" => C4_CaseInsensitiveDispatch

\* C4 in Variant B holds of the names exactly as written in lower case
C4_ExactDispatchB ==
    (DispatchReached /\ variant = "B") =>
        (res.err = "UnsupportedDistribution" <=> name \notin Kinds)

-----------------------------------------------------------------------------
\* the stated range of each kind's parameters
InStatedRange(k, v) ==
    IF k = GEOMETRIC THEN RLt(Zero, v.p) /\ RLe(v.p, One)
    ELSE IF k = BINOMIAL
    THEN IsIntegral(v.n) /\ RLe(Zero, v.n) /\ RLe(Zero, v.p) /\ RLe(v.p, One)
    ELSE IF k = POISSON THEN RLe(Zero, v.mu)
    ELSE RLt(v.low, v.high)
\* the same, with nothing asked of n but n >= 0
InCheckedRange(k, v) ==
    IF k = BINOMIAL THEN RLe(Zero, v.n) /\ RLe(Zero, v.p) /\ RLe(v.p, One)
    ELSE InStatedRange(k, v)

\* C5: in Variant A, for every input without negative values, evaluation
\* fails with the invalid-parameter error and returns no probabilities
\* whenever a parameter violates its stated range (geometric 0 < p <= 1,
\* binomial an integer n >= 0 and 0 <= p <= 1, poisson mu >= 0, uniform
\* low < high), and raises no parameter error when all are in range.
C5_InvalidParameterRejected ==
    (DispatchReached /\ variant = "A" /\ lower(name) \in Kinds
        /\ HasParametersOf(lower(name))) =>
        IF InStatedRange(lower(name), parameters.v)
        THEN res.err # "InvalidParameter"
        ELSE /\ res.status = "raised"
             /\ res.exc = "ValueError"
             /\ res.err = "InvalidParameter"
             /\ res.probabilities = <<>>

\* C5 with the integrality of n left out of the range, which is what the
\* validation checks
C5_CheckedRangeRejected ==
    (DispatchReached /\ variant = "A" /\ lower(name) \in Kinds
        /\ HasParametersOf(lower(name))) =>
        IF InCheckedRange(lower(name), parameters.v)
        THEN res.status = "ok"
        ELSE /\ res.status = "raised"
             /\ res.exc = "ValueError"
             /\ res.err = "InvalidParameter"
             /\ res.probabilities = <<>>

-----------------------------------------------------------------------------
Presentation == {"plot_distribution", "get_user_input", "main"}

-----------------------------------------------------------------------------
\* Pascal's rule for the binomial coefficient
RECURSIVE Choose(_, _)
Choose(n, k) ==
    IF k < 0 \/ k > n THEN 0
    ELSE IF k = 0 \/ k = n THEN 1
    ELSE Choose(n - 1, k - 1) + Choose(n - 1, k)

\* q is C(n,x) * p^x * (1-p)^(n-x) for p = a/b, by cross-multiplication:
\* q = C(n,x) * a^x * (b-a)^(n-x) / b^n
IsBinomialPMF(q, n, p, x) ==
    q[1] * IPow(p[2], n) = Choose(n, x) * IPow(p[1], x) * IPow(p[2] - p[1], n - x) * q[2]

\* the run evaluates the binomial distribution with an integer n
EvaluatesBinomial ==
    /\ DispatchReached
    /\ IF variant = "A" THEN lower(name) = BINOMIAL ELSE name = BINOMIAL
    /\ Has(parameters, "n") /\ Has(parameters, "p")
    /\ IsIntegral(parameters.v.n)

\* C7: in Variant B, get_probability_distribution('binomial', {n, p}, vals)
\* returns the non-negative values of vals in input order, each paired at its
\* position with C(n,x) p^x (1-p)^(n-x) when 0 <= x <= n and with 0 when
\* x > n; for n = 5, p = 0.5, vals = [-1, 0, 1] it removes [-1], keeps [0, 1]
\* and returns the probabilities [1/32, 5/32].
C7_BinomialFilterMode ==
    (EvaluatesBinomial /\ variant = "B") =>
        LET n == IntOf(parameters.v.n)
            p == parameters.v.p
        IN  /\ res.status = "ok"
            /\ IsSubsequenceOf(res.vals, vals, IsNonNegative)
            /\ DOMAIN res.probabilities = DOMAIN res.vals
            /\ \A i \in DOMAIN res.vals :
                  IF res.vals[i] <= n
                  THEN IsBinomialPMF(res.probabilities[i], n, p, res.vals[i])
                  ELSE res.probabilities[i] = Zero
            /\ (n = 5 /\ p = Rat(1, 2) /\ vals = <<-1, 0, 1>>) =>
                  /\ res.removed = <<-1>>
                  /\ res.vals = <<0, 1>>
                  /\ res.probabilities = <<Rat(1, 32), Rat(5, 32)>>

\* the filter-mode example
C7_Witness ==
    /\ EvaluatesBinomial /\ variant = "B"
    /\ parameters.v.n = FromInt(5)
    /\ parameters.v.p = Rat(1, 2)
    /\ vals = <<-1, 0, 1>>
    /\ res.probabilities = <<<<1, 32>>, <<5, 32>>>>

-----------------------------------------------------------------------------
\* C8: for every valid binomial parameter pair (integer n >= 0, 0 <= p <= 1,
\* the endpoints p = 0, p = 1 and n = 0 included), the binomial values
\* computed for x = 0, 1, ..., n sum to 1, in either variant.
C8_BinomialSumsToOne ==
    (EvaluatesBinomial
        /\ RLe(Zero, parameters.v.n)
        /\ RLe(Zero, parameters.v.p) /\ RLe(parameters.v.p, One)
        /\ vals = [i \in 1 .. IntOf(parameters.v.n) + 1 |-> i - 1]) =>
        /\ res.status = "ok"
        /\ Len(res.probabilities) = IntOf(parameters.v.n) + 1
        /\ RSum(res.probabilities) = One

\* the full support 0..MaxN summed in Variant B with p = 1/2
C8_Witness ==
    /\ EvaluatesBinomial /\ variant = "B"
    /\ parameters.v.n = FromInt(MaxN)
    /\ parameters.v.p = Rat(1, 2)
    /\ vals = [i \in 1 .. MaxN + 1 |-> i - 1]
    /\ Len(res.probabilities) = MaxN + 1
    /\ RSum(res.probabilities) = One

\* an endpoint, p = 1 with n = 0, in Variant A
C8_WitnessEndpointA ==
    /\ EvaluatesBinomial /\ variant = "A"
    /\ parameters.v.n = Zero
    /\ parameters.v.p = One
    /\ vals = <<0>>
    /\ res.probabilities = <<One>>

-----------------------------------------------------------------------------
\* some non-negative input value equals the bound b
SomeKeptEquals(b) == \E i \in DOMAIN vals : vals[i] >= 0 /\ FromInt(vals[i]) = b
AllZero(ps) == \A i \in DOMAIN ps : ps[i] = Zero

\* C9: in Variant B, uniform_dist with high = low fails with a division by
\* zero if and only if some retained value equals low; when none does it
\* returns 0 for every value, and with low > high it returns 0 for every
\* value without error.  The division by zero is none of the declared
\* validation errors and is not caught by the presentation layer: it leaves
\* plot_distribution (and the program) unhandled, with no error message.
C9_UniformDegenerateBounds ==
    (DispatchReached /\ variant = "B" /\ name = UNIFORM
        /\ Has(parameters, "low") /\ Has(parameters, "high")) =>
        LET low == parameters.v.low
            high == parameters.v.high
        IN  /\ low = high =>
                  /\ res.exc = "ZeroDivisionError" <=> SomeKeptEquals(low)
                  /\ ~SomeKeptEquals(low) =>
                        res.status = "ok" /\ AllZero(res.probabilities)
            /\ RLt(high, low) => res.status = "ok" /\ AllZero(res.probabilities)
            /\ low # high => res.status = "ok"
            /\ res.exc = "ZeroDivisionError" =>
                  /\ res.status = "raised"
                  /\ res.err = "none"
                  /\ uncaught = "ZeroDivisionError"
                  /\ \A i \in DOMAIN output : output[i].what # "error"

\* the program run with low = high = 1 over a range that contains 1
C9_Witness ==
    /\ DispatchReached /\ variant = "B" /\ entry = "main"
    /\ name = UNIFORM
    /\ parameters.v.low = One /\ parameters.v.high = One
    /\ SomeKeptEquals(One)
    /\ res.exc = "ZeroDivisionError"
    /\ uncaught = "ZeroDivisionError"

-----------------------------------------------------------------------------
\* C10: in Variant A's program flow (get_user_input, then
\* plot_distribution) the range handed to the evaluator never holds a
\* negative value: with start and end both negative the input step fails with
\* an error; otherwise a negative start or end is replaced by its absolute
\* value before the range is built (which can differ from the range typed,
\* and can be empty).  So the evaluator's negative-value error cannot occur.
C10_MainNeverPassesNegatives ==
    (Done /\ variant = "A" /\ entry = "main") =>
        LET s == IF typed.start < 0 THEN -typed.start ELSE typed.start
            e == IF typed.end < 0 THEN -typed.end ELSE typed.end
        IN  /\ \A i \in DOMAIN vals : vals[i] >= 0
            /\ (typed.start < 0 /\ typed.end < 0) =>
                  /\ res.status = "none"
                  /\ output = <<Line("main", "error", MsgBothNegative, <<>>)>>
            /\ ~(typed.start < 0 /\ typed.end < 0) =>
                  /\ Len(vals) = (IF e >= s THEN e - s + 1 ELSE 0)
                  /\ \A i \in DOMAIN vals : vals[i] = s + i - 1
            /\ res.msg # MsgNonNeg
            /\ res.err # "InvalidInput"

\* a negative start replaced by its absolute value: typed -2..3, evaluated 2..3
C10_Witness ==
    /\ Done /\ variant = "A" /\ entry = "main"
    /\ typed.start = -2 /\ typed.end = 3
    /\ vals = <<2, 3>>
    /\ res.status = "ok"

\* a negative end replaced by its absolute value leaves an empty range
C10_WitnessEmptyRange ==
    /\ Done /\ variant = "A" /\ entry = "main"
    /\ typed.start = 3 /\ typed.end = -1
    /\ vals = <<>>
    /\ res.status = "ok"

====
